---- MODULE Spec2Model ----
(***************************************************************************)
(* The reservation / hold engine of the wellness-studio booking server.    *)
(*                                                                         *)
(* The repository holds the same server twice, over two stores:            *)
(*   src/server.js          MongoDB  (backend = "mongo")                   *)
(*   src/unnamed/part_000   Prisma   (backend = "prisma")                  *)
(* The variable backend, fixed by Init, says which file is running.        *)
(*                                                                         *)
(* Instants are minutes of local wall-clock time counted from the midnight *)
(* that starts a Sunday, so that (t \div 1440) % 7 is Date.getDay().       *)
(* A date-time string such as "2024-01-02T11:00:00" is the record          *)
(* [date |-> 2, hm |-> 660]; the date-only string "2024-01-02" is the      *)
(* record [date |-> 2, hm |-> DateOnly].                                   *)
(*                                                                         *)
(* A request handler is a process.  Every action is the code of a handler  *)
(* from one await on the store to the next: the store operation awaited    *)
(* and the synchronous code that follows it.                               *)
(***************************************************************************)
EXTENDS Integers, Sequences, FiniteSets, TLC

VARIABLES
    serial,     \* TRUE: requests are served one after another
    clients,    \* which requests the clients send, see Requests
    failures,   \* store operations that have failed so far
    backend,    \* which of the two servers runs: "mongo" | "prisma"
    tz,         \* offset of the process's local time zone from UTC, minutes
    now,        \* the clock, new Date()
    users,      \* Users collection: email -> hbotCredits
    holds,      \* Holds collection: set of hold documents
    bookings,   \* Bookings collection: set of booking documents
    sessions,   \* paid checkout sessions of the payment gateway (metadata)
    nextId,     \* source of nanoid() / database generated ids
    proc,       \* per handler: program counter and locals
    resp,       \* the response being sent to a client, NoResp when none is
    probe       \* argument and result of the pure function under test

vars == <<serial, clients, failures, backend, tz, now, users, holds, bookings, sessions, nextId, proc, resp, probe>>

(***************************************************************************)
(* ENV / CONFIG                                                            *)
(***************************************************************************)
MinPerDay == 24 * 60
DateOnly == 24 * 60    \* marks a string holding a date and no time
NoUser == "null"       \* null email / absent cookie
NoGroup == 0           \* groupId of a hold or booking that has none

WEEKLY_HOURS(dow) ==
    CASE dow = 1 -> [open |-> 7 * 60, close |-> 18 * 60]
      [] dow = 2 -> [open |-> 7 * 60, close |-> 12 * 60]
      [] dow = 3 -> [open |-> 7 * 60, close |-> 18 * 60]
      [] dow = 4 -> [open |-> 7 * 60, close |-> 12 * 60]
      [] dow = 5 -> [open |-> 7 * 60, close |-> 18 * 60]
      [] OTHER   -> [open |-> 0 - 1, close |-> 0 - 1]      \* null: closed

SERVICES ==
    [ sauna    |-> [duration |-> 15, price |-> 10],
      hbot     |-> [duration |-> 60, price |-> 75],
      icebath  |-> [duration |-> 10, price |-> 10],
      redlight |-> [duration |-> 15, price |-> 10],
      hydrogen |-> [duration |-> 20, price |-> 20],
      lymph    |-> [duration |-> 15, price |-> 10] ]

BUFFERS ==
    [ sauna |-> 0, hbot |-> 30, icebath |-> 0, redlight |-> 5, hydrogen |-> 5, lymph |-> 5 ]

BUNDLES ==
    [ bundle_alt_cold_sauna  |-> [services |-> <<"icebath", "sauna">>, price |-> 20],
      bundle_red_lymph       |-> [services |-> <<"redlight", "lymph">>, price |-> 15],
      bundle_hbot_sauna      |-> [services |-> <<"hbot", "sauna">>, price |-> 80],
      bundle_hbot_sauna_cold |-> [services |-> <<"hbot", "sauna", "icebath">>, price |-> 85],
      bundle_premium_rejuv   |-> [services |-> <<"hbot", "sauna", "icebath", "redlight">>, price |-> 95],
      bundle_platinum_rejuv  |-> [services |-> <<"hbot", "sauna", "icebath", "redlight", "hydrogen">>, price |-> 105] ]

SLOT == 15
SAME_DAY_CUTOFF_MIN == 0
HOLD_TTL_MIN == 12
HBOT_CREDIT_PRICE == 60
HBOT_CREDIT_CHARGE == 6000
HBOT_PACK == 10

(***************************************************************************)
(* date-fns and Date                                                       *)
(***************************************************************************)
addMinutes(t, m) == t + m
isBefore(a, b) == a < b
isAfter(a, b) == a > b
getDay(t) == (t \div MinPerDay) % 7
startOfDay(t) == (t \div MinPerDay) * MinPerDay
isSameDay(a, b) == (a \div MinPerDay) = (b \div MinPerDay)

\* parseISO: a date-time string without offset is local time.
parseISO(s) == s.date * MinPerDay + (IF s.hm = DateOnly THEN 0 ELSE s.hm)

\* formatISO(d, {representation:"complete"}).slice(0,19): local date and time.
formatISO(t) == [date |-> t \div MinPerDay, hm |-> t % MinPerDay]

\* formatISO(d, {representation:"date"}): the local date alone.
formatISODate(t) == [date |-> t \div MinPerDay, hm |-> DateOnly]

\* new Date(string): a date-time string without offset is local time, a
\* date-only string is midnight UTC, which is tz minutes off local midnight.
NewDate(s) == IF s.hm = DateOnly THEN s.date * MinPerDay + tz ELSE parseISO(s)

\* areIntervalsOverlapping(a, b, {inclusive:true})
areIntervalsOverlapping(aStart, aEnd, bStart, bEnd) ==
    aStart <= bEnd /\ bStart <= aEnd

(***************************************************************************)
(* HELPERS                                                                 *)
(***************************************************************************)
NoWindow == [open |-> 0 - 1, close |-> 0 - 1]

businessWindowOn(dateISO) ==
    LET d   == NewDate(dateISO)
        cfg == WEEKLY_HOURS(getDay(d))
    IN  IF cfg.open < 0 THEN NoWindow
        ELSE [open |-> startOfDay(d) + cfg.open, close |-> startOfDay(d) + cfg.close]

intervalWithBuffer(serviceKey, start) ==
    LET end == addMinutes(start, SERVICES[serviceKey].duration)
    IN  [start |-> start, end |-> end, endWB |-> addMinutes(end, BUFFERS[serviceKey])]

withinHoursMongo(serviceKey, startISO) ==
    LET win == businessWindowOn(startISO)
        iv  == intervalWithBuffer(serviceKey, parseISO(startISO))
    IN  /\ win # NoWindow
        /\ ~isBefore(iv.start, win.open)
        /\ ~isAfter(iv.end, win.close)

withinHoursPrisma(serviceKey, startISO) ==
    LET d   == parseISO(startISO)
        win == businessWindowOn(formatISODate(d))
        iv  == intervalWithBuffer(serviceKey, d)
    IN  /\ win # NoWindow
        /\ ~isAfter(d, win.close)
        /\ ~isAfter(iv.end, win.close)
        /\ ~isAfter(win.open, d)

withinHours(serviceKey, startISO) ==
    IF backend = "mongo" THEN withinHoursMongo(serviceKey, startISO)
    ELSE withinHoursPrisma(serviceKey, startISO)

sameDayCutoffOK(startISO) ==
    IF SAME_DAY_CUTOFF_MIN <= 0 THEN TRUE
    ELSE IF ~isSameDay(parseISO(startISO), now) THEN TRUE
    ELSE parseISO(startISO) - now >= SAME_DAY_CUTOFF_MIN

userPriceFor(serviceKey, credits) ==
    IF serviceKey = "hbot" /\ credits > 0 THEN HBOT_CREDIT_PRICE
    ELSE SERVICES[serviceKey].price

\* Users.findOne({email}): the credit balance, 0 when there is no such user
\* ((user.hbotCredits||0) of an absent user never passes "> 0").
creditsOf(email) == IF email \in DOMAIN users THEN users[email] ELSE 0

(***************************************************************************)
(* Conflict checker.  overlapsMongo and overlapsPrisma each await two      *)
(* queries; hitBooking is what the first decides and hitHold what the      *)
(* second decides, qnow being the new Date() the query was built with.     *)
(***************************************************************************)
hitBookingMongo(serviceKey, start, endWB) ==
    \E b \in bookings :
        /\ b.service = serviceKey
        /\ areIntervalsOverlapping(start, endWB, parseISO(b.startISO),
               addMinutes(parseISO(b.endISO), BUFFERS[b.service]))

\* A holds query that has lost its expireAt filter.
liveHolds_NoExpiryFilter(qnow) == holds

liveHolds(qnow) == {h \in holds : h.expireAt > qnow}

\* A holds query that also returns the live holds of every other service.
hitHoldMongo_AnyService(serviceKey, start, endWB, qnow) ==
    \E h \in liveHolds(qnow) :
        areIntervalsOverlapping(start, endWB, parseISO(h.startISO), parseISO(h.endISOWB))

\* A conflict check that looks at bookings alone.
hitHoldMongo_IgnoreHolds(serviceKey, start, endWB, qnow) == FALSE

hitHoldMongo(serviceKey, start, endWB, qnow) ==
    \E h \in liveHolds(qnow) :
        /\ h.service = serviceKey
        /\ areIntervalsOverlapping(start, endWB, parseISO(h.startISO), parseISO(h.endISOWB))

hitBookingPrisma(serviceKey, start, endWB) ==
    \E b \in bookings :
        /\ b.service = serviceKey
        /\ parseISO(b.startISO) < endWB
        /\ parseISO(b.endISO) > start

hitHoldPrisma(serviceKey, start, endWB, qnow) ==
    \E h \in liveHolds(qnow) :
        /\ h.service = serviceKey
        /\ parseISO(h.startISO) < endWB
        /\ parseISO(h.endISOWB) > start

hitBooking(serviceKey, start, endWB) ==
    IF backend = "mongo" THEN hitBookingMongo(serviceKey, start, endWB)
    ELSE hitBookingPrisma(serviceKey, start, endWB)

hitHold(serviceKey, start, endWB, qnow) ==
    IF backend = "mongo" THEN hitHoldMongo(serviceKey, start, endWB, qnow)
    ELSE hitHoldPrisma(serviceKey, start, endWB, qnow)

\* overlapsMongo / overlapsPrisma evaluated against one state of the store.
overlaps(serviceKey, start, endWB) ==
    hitBooking(serviceKey, start, endWB) \/ hitHold(serviceKey, start, endWB, now)

(***************************************************************************)
(* Bounds of the model                                                     *)
(***************************************************************************)
Procs == {"p1", "p2"}                  \* concurrent request handlers
Emails == {"ann"}                      \* registered customers
Cookies == Emails \cup {NoUser}
UTC == 0 * 60
Chicago == 0 - 6 * 60                  \* TIMEZONE = "America/Chicago" (CST)
\* server and process time zone; the Mongo server reads no date-only string,
\* so its behaviour is the same in every zone
Deployments == { [backend |-> "mongo", tz |-> Chicago],
                 [backend |-> "prisma", tz |-> Chicago],
                 [backend |-> "prisma", tz |-> UTC] }
ReqServices == {"hbot", "sauna"}       \* services requested
Tue0700 == [date |-> 2, hm |-> 7 * 60]
Tue1100 == [date |-> 2, hm |-> 11 * 60]
Tue1115 == [date |-> 2, hm |-> 11 * 60 + 15]
ReqStarts == {Tue0700, Tue1100}        \* start times requested
ReqBundles == {"bundle_hbot_sauna"}
ReqDates == {2}                        \* dates whose availability is asked
Now0 == 1 * MinPerDay + 6 * 60         \* the clock at start: Monday 06:00
TickStep == HOLD_TTL_MIN                \* the clock advances one hold lifetime per step
MaxTicks == 1                          \* number of clock steps
IdsPerGroup == 2 * 5                   \* room for the holds of one group
MaxIds == 2                            \* hold and group ids minted
StartCredits == 1                      \* credit balance at start
MaxFailures == 1                       \* store operations that fail
MaxCredits == HBOT_PACK                \* a pack is granted while the balance stays within this

\* What the clients ask for: the services and start times of single calls,
\* the identities that ask for a quote (cookies) and that check out and
\* confirm (buyers), whether the selections of a bundle call name the
\* bundle's own services in order (the handler checks their number alone),
\* and whether the store may fail an operation of confirm.
ConcurrentRequests ==
    [services |-> {"hbot"}, starts |-> {Tue0700}, cookies |-> Emails,
     buyers |-> Emails, wellFormed |-> TRUE, faults |-> FALSE]
SequentialRequests ==
    [services |-> ReqServices, starts |-> ReqStarts, cookies |-> Cookies,
     buyers |-> Emails, wellFormed |-> TRUE, faults |-> FALSE]
\* Requests at the edges: a start that leaves the opening hours next to one
\* that does not, and buyers without a login.
EdgeRequests ==
    [services |-> {"hbot"}, starts |-> {Tue1100, Tue1115}, cookies |-> Cookies,
     buyers |-> Cookies, wellFormed |-> TRUE, faults |-> FALSE]
\* Requests the handlers do not expect: selections that name any service,
\* against a store that may fail.
FaultyRequests ==
    [services |-> {"hbot"}, starts |-> {Tue0700}, cookies |-> Emails,
     buyers |-> Emails, wellFormed |-> FALSE, faults |-> TRUE]
Requests ==
    CASE clients = "concurrent" -> ConcurrentRequests
      [] clients = "sequential" -> SequentialRequests
      [] clients = "edge" -> EdgeRequests
      [] OTHER -> FaultyRequests

Idle == [pc |-> "idle"]
NoResp == [op |-> "none", ok |-> TRUE, error |-> "", id |-> NoGroup]
Ok(op, id) == [op |-> op, ok |-> TRUE, error |-> "", id |-> id]
Err(op, error) == [op |-> op, ok |-> FALSE, error |-> error, id |-> NoGroup]

\* ids a handler in flight will still mint
idsNeeded(p) ==
    CASE proc[p].pc \in {"hs_bookings", "hs_holds", "hs_insert"} -> 1
      [] proc[p].pc \in {"hb_bookings", "hb_holds", "hb_insert"} -> 1
      [] OTHER -> 0
RECURSIVE idsReserved(_)
idsReserved(ps) ==
    IF ps = {} THEN 0
    ELSE LET p == CHOOSE q \in ps : TRUE IN idsNeeded(p) + idsReserved(ps \ {p})
idsFree == MaxIds - (nextId - 1) - idsReserved(Procs)

\* res.json(r): the handler ends.  Responses leave one at a time.
Respond(p, r) ==
    /\ resp = NoResp
    /\ proc' = [proc EXCEPT ![p] = Idle]
    /\ resp' = r

\* A handler may take a request: always when handlers run concurrently; when
\* requests are served one after another, handler p1 takes them all, each
\* after the last response has left.
Quiet == resp = NoResp /\ \A q \in Procs : proc[q].pc = "idle"
Allowed(p) == proc[p].pc = "idle" /\ (serial => (p = "p1" /\ Quiet))

Goto(p, locals) ==
    /\ proc' = [proc EXCEPT ![p] = locals]
    /\ UNCHANGED resp

(***************************************************************************)
(* POST /api/checkout-single, with placeHoldSingle                         *)
(***************************************************************************)
holdDocSingle(id, service, start, email, unitAmount, expireAt) ==
    LET iv == intervalWithBuffer(service, start)
    IN  [ id |-> id, type |-> "single", groupId |-> NoGroup, bundleId |-> "",
          service |-> service,
          startISO |-> formatISO(start),
          endISO |-> formatISO(iv.end),
          endISOWB |-> formatISO(iv.endWB),
          email |-> email, unitAmount |-> unitAmount, amount |-> 0,
          expireAt |-> expireAt, createdAt |-> expireAt - HOLD_TTL_MIN ]

\* A placeHoldSingle that goes to the conflict check without the hours check.
CheckoutSingle_NoHoursCheck(p, service, startISO, email) ==
    /\ Allowed(p)
    /\ idsFree >= 1
    /\ LET unitAmount == userPriceFor(service, creditsOf(email)) * 100 IN
       IF ~sameDayCutoffOK(startISO)
       THEN Respond(p, Err("checkout-single", "past cutoff for today"))
       ELSE Goto(p, [pc |-> "hs_bookings", service |-> service, startISO |-> startISO,
                     email |-> email, unitAmount |-> unitAmount])
    /\ UNCHANGED <<serial, clients, failures, backend, tz, now, users, holds, bookings, sessions, nextId, probe>>

\* Users.findOne resolved; placeHoldSingle up to its first query.
CheckoutSingle(p, service, startISO, email) ==
    /\ Allowed(p)
    /\ idsFree >= 1
    /\ LET unitAmount == userPriceFor(service, creditsOf(email)) * 100 IN
       IF ~withinHours(service, startISO)
       THEN Respond(p, Err("checkout-single", "outside business hours"))
       ELSE IF ~sameDayCutoffOK(startISO)
       THEN Respond(p, Err("checkout-single", "past cutoff for today"))
       ELSE Goto(p, [pc |-> "hs_bookings", service |-> service, startISO |-> startISO,
                     email |-> email, unitAmount |-> unitAmount])
    /\ UNCHANGED <<serial, clients, failures, backend, tz, now, users, holds, bookings, sessions, nextId, probe>>

\* The bookings query of overlapsMongo / overlapsPrisma resolved.
HoldSingleBookings(p) ==
    /\ proc[p].pc = "hs_bookings"
    /\ LET l   == proc[p]
           iv  == intervalWithBuffer(l.service, parseISO(l.startISO))
           hit == hitBooking(l.service, iv.start, iv.endWB)
       IN  IF backend = "mongo" /\ hit
           THEN Respond(p, Err("checkout-single", "slot currently unavailable"))
           ELSE Goto(p, [pc |-> "hs_holds", service |-> l.service, startISO |-> l.startISO,
                         email |-> l.email, unitAmount |-> l.unitAmount,
                         hit |-> hit, qnow |-> now])
    /\ UNCHANGED <<serial, clients, failures, backend, tz, now, users, holds, bookings, sessions, nextId, probe>>

\* The holds query resolved; expireAt is computed.
HoldSingleHolds(p) ==
    /\ proc[p].pc = "hs_holds"
    /\ LET l   == proc[p]
           iv  == intervalWithBuffer(l.service, parseISO(l.startISO))
           hit == l.hit \/ hitHold(l.service, iv.start, iv.endWB, l.qnow)
       IN  IF hit
           THEN Respond(p, Err("checkout-single", "slot currently unavailable"))
           ELSE Goto(p, [pc |-> "hs_insert", service |-> l.service, startISO |-> l.startISO,
                         email |-> l.email, unitAmount |-> l.unitAmount,
                         expireAt |-> addMinutes(now, HOLD_TTL_MIN)])
    /\ UNCHANGED <<serial, clients, failures, backend, tz, now, users, holds, bookings, sessions, nextId, probe>>

\* Holds.insertOne resolved; the checkout session carries the hold's id.
HoldSingleInsert(p) ==
    /\ proc[p].pc = "hs_insert"
    /\ LET l == proc[p] IN
       /\ holds' = holds \cup {holdDocSingle(nextId, l.service, parseISO(l.startISO),
                                             l.email, l.unitAmount, l.expireAt)}
       /\ sessions' = sessions \cup
             {[id |-> nextId, kind |-> "single", service |-> l.service,
               startISO |-> l.startISO, holdId |-> nextId, bundleId |-> "",
               groupId |-> NoGroup]}
       /\ nextId' = nextId + 1
       /\ Respond(p, Ok("checkout-single", nextId))
    /\ UNCHANGED <<serial, clients, failures, backend, tz, now, users, bookings, probe>>

(***************************************************************************)
(* POST /api/checkout-bundle, with placeHoldBundle                         *)
(***************************************************************************)
\* the id the store gives the hold of selection k of group groupId
memberId(groupId, k) == groupId * IdsPerGroup + k

holdDocBundle(id, groupId, bundleId, sel, email, amount, expireAt, createdAt) ==
    LET start == parseISO(sel.startISO)
        iv    == intervalWithBuffer(sel.service, start)
    IN  [ id |-> id, type |-> "bundle", groupId |-> groupId, bundleId |-> bundleId,
          service |-> sel.service,
          startISO |-> formatISO(start),
          endISO |-> formatISO(iv.end),
          endISOWB |-> formatISO(iv.endWB),
          email |-> email, unitAmount |-> 0, amount |-> amount,
          expireAt |-> expireAt, createdAt |-> createdAt ]

\* The validation loop of placeHoldBundle from the top of iteration i to its
\* first query; past the last selection, the code up to Holds.insertMany.
\* The Mongo server computes expireAt before the loop, the Prisma one after;
\* both build the documents, with createdAt: new Date(), after the loop.
ValidateFrom(p, l, i) ==
    IF i > Len(l.selections)
    THEN Goto(p, [pc |-> "hb_insert", bundleId |-> l.bundleId, selections |-> l.selections,
                  email |-> l.email, amount |-> l.amount,
                  expireAt |-> IF backend = "mongo" THEN l.expireAt
                               ELSE addMinutes(now, HOLD_TTL_MIN),
                  createdAt |-> now])
    ELSE IF ~withinHours(l.selections[i].service, l.selections[i].startISO)
    THEN Respond(p, Err("checkout-bundle", "outside hours"))
    ELSE IF ~sameDayCutoffOK(l.selections[i].startISO)
    THEN Respond(p, Err("checkout-bundle", "past cutoff"))
    ELSE Goto(p, [pc |-> "hb_bookings", bundleId |-> l.bundleId, selections |-> l.selections,
                  email |-> l.email, amount |-> l.amount, expireAt |-> l.expireAt, i |-> i])

CheckoutBundle(p, bundleId, selections, email) ==
    /\ Allowed(p)
    /\ Len(selections) = Len(BUNDLES[bundleId].services)
    /\ idsFree >= 1
    /\ ValidateFrom(p, [bundleId |-> bundleId, selections |-> selections, email |-> email,
                        amount |-> BUNDLES[bundleId].price * 100,
                        expireAt |-> addMinutes(now, HOLD_TTL_MIN)], 1)
    /\ UNCHANGED <<serial, clients, failures, backend, tz, now, users, holds, bookings, sessions, nextId, probe>>

HoldBundleBookings(p) ==
    /\ proc[p].pc = "hb_bookings"
    /\ LET l   == proc[p]
           sel == l.selections[l.i]
           iv  == intervalWithBuffer(sel.service, parseISO(sel.startISO))
           hit == hitBooking(sel.service, iv.start, iv.endWB)
       IN  IF backend = "mongo" /\ hit
           THEN Respond(p, Err("checkout-bundle", "one or more slots unavailable"))
           ELSE Goto(p, [pc |-> "hb_holds", bundleId |-> l.bundleId,
                         selections |-> l.selections, email |-> l.email,
                         amount |-> l.amount, expireAt |-> l.expireAt, i |-> l.i,
                         hit |-> hit, qnow |-> now])
    /\ UNCHANGED <<serial, clients, failures, backend, tz, now, users, holds, bookings, sessions, nextId, probe>>

\* A bundle call that passes its validation of selection i writes the hold of
\* that selection at once instead of waiting for the whole group.
HoldBundleHolds_PersistEach(p) ==
    /\ proc[p].pc = "hb_holds"
    /\ LET l   == proc[p]
           sel == l.selections[l.i]
           iv  == intervalWithBuffer(sel.service, parseISO(sel.startISO))
           hit == l.hit \/ hitHold(sel.service, iv.start, iv.endWB, l.qnow)
       IN  IF hit
           THEN /\ Respond(p, Err("checkout-bundle", "one or more slots unavailable"))
                /\ UNCHANGED holds
           ELSE /\ ValidateFrom(p, l, l.i + 1)
                /\ holds' = holds \cup
                      {holdDocBundle(memberId(nextId, l.i), nextId, l.bundleId, sel, l.email,
                                     l.amount, addMinutes(now, HOLD_TTL_MIN), now)}
    /\ UNCHANGED <<serial, clients, failures, backend, tz, now, users, bookings, sessions, nextId, probe>>

HoldBundleHolds(p) ==
    /\ proc[p].pc = "hb_holds"
    /\ LET l   == proc[p]
           sel == l.selections[l.i]
           iv  == intervalWithBuffer(sel.service, parseISO(sel.startISO))
           hit == l.hit \/ hitHold(sel.service, iv.start, iv.endWB, l.qnow)
       IN  IF hit
           THEN Respond(p, Err("checkout-bundle", "one or more slots unavailable"))
           ELSE ValidateFrom(p, l, l.i + 1)
    /\ UNCHANGED <<serial, clients, failures, backend, tz, now, users, holds, bookings, sessions, nextId, probe>>

\* Holds.insertMany resolved: one hold per selection, all under one fresh
\* group identifier, each with a fresh id of its own.
HoldBundleInsert(p) ==
    /\ proc[p].pc = "hb_insert"
    /\ LET l == proc[p] IN
       /\ holds' = holds \cup
             { holdDocBundle(memberId(nextId, k), nextId, l.bundleId, l.selections[k],
                             l.email, l.amount, l.expireAt, l.createdAt) : k \in 1..Len(l.selections) }
       /\ sessions' = sessions \cup
             {[id |-> nextId, kind |-> "bundle", service |-> "",
               startISO |-> formatISO(0), holdId |-> NoGroup, bundleId |-> l.bundleId,
               groupId |-> nextId]}
       /\ nextId' = nextId + 1
       /\ Respond(p, Ok("checkout-bundle", nextId))
    /\ UNCHANGED <<serial, clients, failures, backend, tz, now, users, bookings, probe>>

(***************************************************************************)
(* POST /api/confirm                                                       *)
(***************************************************************************)
\* A booking document that stores the buffered end as its end.
bookingDoc_BufferedEnd(id, groupId, service, start, email, sessionId) ==
    [ id |-> id, groupId |-> groupId, service |-> service,
      startISO |-> formatISO(start),
      endISO |-> formatISO(intervalWithBuffer(service, start).endWB),
      clientEmail |-> email, paidSessionId |-> sessionId ]

bookingDoc(id, groupId, service, start, email, sessionId) ==
    [ id |-> id, groupId |-> groupId, service |-> service,
      startISO |-> formatISO(start),
      endISO |-> formatISO(intervalWithBuffer(service, start).end),
      clientEmail |-> email, paidSessionId |-> sessionId ]

freshBookingId(k) == Cardinality(bookings) + k

\* An awaited store operation of confirm resolves, or rejects and the catch
\* block answers 500 with whatever was written before left in place.
Faults == IF Requests.faults /\ failures < MaxFailures THEN {FALSE, TRUE} ELSE {FALSE}
ConfirmFailed(p) == Respond(p, Err("confirm", "confirm failed"))

\* The paid session retrieved and the hold(s) looked up.  In the Prisma server
\* a single hold that is not found by id is looked up again by _id, which is
\* no field of the model: that query throws and the catch answers 500.
Confirm(p, sess, cookie) ==
    /\ Allowed(p)
    /\ sess \in sessions
    /\ \E fault \in Faults :
       /\ failures' = failures + (IF fault THEN 1 ELSE 0)
       /\ IF fault THEN ConfirmFailed(p)
          ELSE IF sess.kind = "single"
          THEN LET found == {h \in holds : h.id = sess.holdId} IN
               IF found = {}
               THEN Respond(p, IF backend = "mongo" THEN Err("confirm", "hold expired")
                               ELSE Err("confirm", "confirm failed"))
               ELSE LET hold  == CHOOSE h \in found : TRUE
                        email == IF hold.email # NoUser THEN hold.email ELSE cookie
                    IN  Goto(p, [pc |-> IF sess.service = "hbot" /\ email # NoUser
                                        THEN "cs_user" ELSE "cs_insert",
                                 sess |-> sess, hold |-> hold, email |-> email])
          ELSE LET found == {h \in holds : h.groupId = sess.groupId} IN
               IF found = {}
               THEN Respond(p, Err("confirm", "bundle holds expired"))
               ELSE LET first == CHOOSE h \in found : \A g \in found : h.id <= g.id
                        email == IF first.email # NoUser THEN first.email ELSE cookie
                    IN  Goto(p, [pc |-> "cb_insert", sess |-> sess, batch |-> found,
                                 email |-> email])
    /\ UNCHANGED <<serial, clients, backend, tz, now, users, holds, bookings, sessions, nextId, probe>>

\* A confirm that consumes a credit whatever the hold was charged.
ConfirmUser_AnyCharge(p) ==
    /\ proc[p].pc = "cs_user"
    /\ LET l == proc[p] IN
       Goto(p, [pc |-> IF l.email \in DOMAIN users /\ users[l.email] > 0
                       THEN "cs_dec" ELSE "cs_insert",
                sess |-> l.sess, hold |-> l.hold, email |-> l.email,
                user |-> creditsOf(l.email)])
    /\ UNCHANGED <<failures, serial, clients, backend, tz, now, users, holds, bookings, sessions, nextId, probe>>

\* A confirm that decides from the price the customer would be quoted now.
ConfirmUser_PriceAtConfirm(p) ==
    /\ proc[p].pc = "cs_user"
    /\ LET l == proc[p] IN
       Goto(p, [pc |-> IF /\ l.email \in DOMAIN users
                          /\ userPriceFor(l.sess.service, creditsOf(l.email)) = HBOT_CREDIT_PRICE
                       THEN "cs_dec" ELSE "cs_insert",
                sess |-> l.sess, hold |-> l.hold, email |-> l.email,
                user |-> creditsOf(l.email)])
    /\ UNCHANGED <<failures, serial, clients, backend, tz, now, users, holds, bookings, sessions, nextId, probe>>

\* Users.findOne resolved: user holds the balance that was found.
ConfirmUser(p) ==
    /\ proc[p].pc = "cs_user"
    /\ \E fault \in Faults :
       /\ failures' = failures + (IF fault THEN 1 ELSE 0)
       /\ LET l == proc[p] IN
          IF fault THEN ConfirmFailed(p) ELSE
          Goto(p, [pc |-> IF /\ l.email \in DOMAIN users
                             /\ users[l.email] > 0
                             /\ l.hold.unitAmount = HBOT_CREDIT_CHARGE
                          THEN "cs_dec" ELSE "cs_insert",
                   sess |-> l.sess, hold |-> l.hold, email |-> l.email,
                   user |-> creditsOf(l.email)])
    /\ UNCHANGED <<serial, clients, backend, tz, now, users, holds, bookings, sessions, nextId, probe>>

\* Users.updateOne({$inc: {hbotCredits: -1}}) resolved.
ConfirmDecrement(p) ==
    /\ proc[p].pc = "cs_dec"
    /\ \E fault \in Faults :
       /\ failures' = failures + (IF fault THEN 1 ELSE 0)
       /\ IF fault THEN users' = users /\ ConfirmFailed(p)
          ELSE /\ users' = [users EXCEPT ![proc[p].email] = @ - 1]
               /\ Goto(p, [proc[p] EXCEPT !.pc = "cs_insert"])
    /\ UNCHANGED <<serial, clients, backend, tz, now, holds, bookings, sessions, nextId, probe>>

\* A confirm that removes the hold first and inserts the booking afterwards.
ConfirmInsert_DeleteFirst(p) ==
    /\ proc[p].pc = "cs_insert"
    /\ failures' = failures
    /\ holds' = {h \in holds : h.id # proc[p].sess.holdId}
    /\ Goto(p, [proc[p] EXCEPT !.pc = "cs_delete"])
    /\ UNCHANGED <<serial, clients, backend, tz, now, users, bookings, sessions, nextId, probe>>

\* Bookings.insertOne resolved.
ConfirmInsert(p) ==
    /\ proc[p].pc = "cs_insert"
    /\ \E fault \in Faults :
       /\ failures' = failures + (IF fault THEN 1 ELSE 0)
       /\ LET l == proc[p] IN
          IF fault THEN bookings' = bookings /\ ConfirmFailed(p)
          ELSE /\ bookings' = bookings \cup
                     {bookingDoc(freshBookingId(1), NoGroup, l.sess.service,
                                 parseISO(l.sess.startISO), l.email, l.sess.id)}
               /\ Goto(p, [proc[p] EXCEPT !.pc = "cs_delete"])
    /\ UNCHANGED <<serial, clients, backend, tz, now, users, holds, sessions, nextId, probe>>

\* A confirm that answers without deleting the hold.
ConfirmDelete_KeepHold(p) ==
    /\ proc[p].pc = "cs_delete"
    /\ failures' = failures
    /\ holds' = holds
    /\ Respond(p, Ok("confirm", proc[p].sess.holdId))
    /\ UNCHANGED <<serial, clients, backend, tz, now, users, bookings, sessions, nextId, probe>>

\* Holds.deleteOne resolved.  Mongo's deleteOne of an absent document deletes
\* nothing; Prisma's delete of an absent row throws and the catch answers 500.
ConfirmDelete(p) ==
    /\ proc[p].pc = "cs_delete"
    /\ \E fault \in Faults :
       /\ failures' = failures + (IF fault THEN 1 ELSE 0)
       /\ LET id == proc[p].sess.holdId
              present == \E h \in holds : h.id = id
          IN  IF fault THEN holds' = holds /\ ConfirmFailed(p)
              ELSE /\ holds' = {h \in holds : h.id # id}
                   /\ IF backend = "prisma" /\ ~present
                      THEN ConfirmFailed(p)
                      ELSE Respond(p, Ok("confirm", id))
    /\ UNCHANGED <<serial, clients, backend, tz, now, users, bookings, sessions, nextId, probe>>

\* A bundle confirm that books only the member holds whose expiry is ahead.
ConfirmBundleInsert_LiveOnly(p) ==
    /\ proc[p].pc = "cb_insert"
    /\ LET l    == proc[p]
           live == {h \in l.batch : h.expireAt > now}
       IN  /\ bookings' = bookings \cup
                 { bookingDoc(freshBookingId(Cardinality({g \in live : g.id <= h.id})),
                              l.sess.groupId, h.service, parseISO(h.startISO),
                              l.email, l.sess.id) : h \in live }
           /\ Goto(p, [proc[p] EXCEPT !.pc = "cb_delete"])
    /\ UNCHANGED <<serial, clients, failures, backend, tz, now, users, holds, sessions, nextId, probe>>

\* Bookings.insertMany resolved.
ConfirmBundleInsert(p) ==
    /\ proc[p].pc = "cb_insert"
    /\ \E fault \in Faults :
       /\ failures' = failures + (IF fault THEN 1 ELSE 0)
       /\ LET l == proc[p] IN
          IF fault THEN bookings' = bookings /\ ConfirmFailed(p)
          ELSE /\ bookings' = bookings \cup
                     { bookingDoc(freshBookingId(Cardinality({g \in l.batch : g.id <= h.id})),
                                  l.sess.groupId, h.service, parseISO(h.startISO),
                                  l.email, l.sess.id) : h \in l.batch }
               /\ Goto(p, [proc[p] EXCEPT !.pc = "cb_delete"])
    /\ UNCHANGED <<serial, clients, backend, tz, now, users, holds, sessions, nextId, probe>>

\* Holds.deleteMany({groupId}) resolved.
ConfirmBundleDelete(p) ==
    /\ proc[p].pc = "cb_delete"
    /\ \E fault \in Faults :
       /\ failures' = failures + (IF fault THEN 1 ELSE 0)
       /\ IF fault THEN holds' = holds /\ ConfirmFailed(p)
          ELSE /\ holds' = {h \in holds : h.groupId # proc[p].sess.groupId}
               /\ Respond(p, Ok("confirm", proc[p].sess.groupId))
    /\ UNCHANGED <<serial, clients, backend, tz, now, users, bookings, sessions, nextId, probe>>

(***************************************************************************)
(* GET /api/availability, POST /api/quote                                  *)
(***************************************************************************)
\* The while loop of the handler, from cursor on.
\* An availability loop that runs while the cursor itself is not after close.
RECURSIVE slotsFrom_PastClose(_, _, _)
slotsFrom_PastClose(service, cursor, close) ==
    IF isAfter(cursor, close) THEN <<>>
    ELSE LET iv   == intervalWithBuffer(service, cursor)
             rest == slotsFrom_PastClose(service, addMinutes(cursor, SLOT), close)
         IN  IF ~overlaps(service, iv.start, iv.endWB)
             THEN <<[startISO |-> formatISO(iv.start), endISO |-> formatISO(iv.end)]>> \o rest
             ELSE rest

RECURSIVE slotsFrom(_, _, _)
slotsFrom(service, cursor, close) ==
    IF isAfter(addMinutes(cursor, SERVICES[service].duration), close) THEN <<>>
    ELSE LET iv   == intervalWithBuffer(service, cursor)
             rest == slotsFrom(service, addMinutes(cursor, SLOT), close)
         IN  IF ~overlaps(service, iv.start, iv.endWB)
             THEN <<[startISO |-> formatISO(iv.start), endISO |-> formatISO(iv.end)]>> \o rest
             ELSE rest

\* The slots the handler answers for `${date}T00:00:00`.
availability(service, date) ==
    LET win == businessWindowOn([date |-> date, hm |-> 0])
    IN  IF win = NoWindow THEN <<>> ELSE slotsFrom(service, win.open, win.close)

\* An availability handler that purges the expired holds it meets.
GetAvailability_Purging(p, service, date) ==
    /\ Allowed(p)
    /\ Respond(p, [op |-> "availability", ok |-> TRUE, error |-> "", id |-> NoGroup,
                   service |-> service, date |-> date,
                   slots |-> availability(service, date)])
    /\ holds' = liveHolds(now)
    /\ UNCHANGED <<serial, clients, failures, backend, tz, now, users, bookings, sessions, nextId, probe>>

GetAvailability(p, service, date) ==
    /\ Allowed(p)
    /\ Respond(p, [op |-> "availability", ok |-> TRUE, error |-> "", id |-> NoGroup,
                   service |-> service, date |-> date,
                   slots |-> availability(service, date)])
    /\ UNCHANGED <<serial, clients, failures, backend, tz, now, users, holds, bookings, sessions, nextId, probe>>

Quote(p, service, email) ==
    /\ Allowed(p)
    /\ Respond(p, [op |-> "quote", ok |-> TRUE, error |-> "", id |-> NoGroup,
                   service |-> service, email |-> email,
                   price |-> userPriceFor(service, creditsOf(email))])
    /\ UNCHANGED <<serial, clients, failures, backend, tz, now, users, holds, bookings, sessions, nextId, probe>>

\* A login that clears the holds the user left behind.
Login_DroppingHolds(p, email) ==
    /\ Allowed(p)
    /\ users' = users
    /\ holds' = {h \in holds : h.email # email}
    /\ Respond(p, [op |-> "login", ok |-> TRUE, error |-> "", id |-> NoGroup,
                   email |-> email])
    /\ UNCHANGED <<serial, clients, failures, backend, tz, now, bookings, sessions, nextId, probe>>

\* POST /api/login: the user is looked up and, when unknown, inserted with
\* no credits; the answer sets the cookie.
Login(p, email) ==
    /\ Allowed(p)
    /\ users' = IF email \in DOMAIN users THEN users
                ELSE [e \in DOMAIN users \cup {email} |->
                         IF e = email THEN 0 ELSE users[e]]
    /\ Respond(p, [op |-> "login", ok |-> TRUE, error |-> "", id |-> NoGroup,
                   email |-> email])
    /\ UNCHANGED <<serial, clients, failures, backend, tz, now, holds, bookings, sessions, nextId, probe>>

\* POST /api/grant-hbot-pack for a known email: $inc hbotCredits by a pack.
GrantHbotPack(p, email) ==
    /\ Allowed(p)
    /\ email \in DOMAIN users
    /\ users[email] + HBOT_PACK <= MaxCredits
    /\ users' = [users EXCEPT ![email] = @ + HBOT_PACK]
    /\ Respond(p, Ok("grant-hbot-pack", NoGroup))
    /\ UNCHANGED <<serial, clients, failures, backend, tz, now, holds, bookings, sessions, nextId, probe>>

\* GET /admin/api/holds: the holds whose expireAt is after new Date().
AdminHolds(p) ==
    /\ Allowed(p)
    /\ Respond(p, [op |-> "admin-holds", ok |-> TRUE, error |-> "", id |-> NoGroup,
                   at |-> now, list |-> liveHolds(now)])
    /\ UNCHANGED <<serial, clients, failures, backend, tz, now, users, holds, bookings, sessions, nextId, probe>>

(***************************************************************************)
(* The clock, and MongoDB's TTL monitor on Holds.expireAt                  *)
(***************************************************************************)
Tick ==
    /\ serial => Quiet
    /\ now + TickStep <= Now0 + MaxTicks * TickStep
    /\ now' = now + TickStep
    /\ UNCHANGED <<serial, clients, failures, backend, tz, users, holds, bookings, sessions, nextId, proc, resp, probe>>

\* createIndex({expireAt: 1}, {expireAfterSeconds: 0}): the monitor deletes
\* expired documents one by one, some time after they expire.
Sweep ==
    /\ serial => Quiet
    /\ backend = "mongo"
    /\ \E h \in holds :
          /\ h.expireAt <= now
          /\ holds' = holds \ {h}
    /\ UNCHANGED <<serial, clients, failures, backend, tz, now, users, bookings, sessions, nextId, proc, resp, probe>>

\* The response has reached its client.
Deliver ==
    /\ resp # NoResp
    /\ resp' = NoResp
    /\ UNCHANGED <<serial, clients, failures, backend, tz, now, users, holds, bookings, sessions, nextId, proc, probe>>

(***************************************************************************)
(* Specifications                                                          *)
(***************************************************************************)
NoProbe == [fn |-> "none"]

Start ==
    /\ \E d \in Deployments : backend = d.backend /\ tz = d.tz
    /\ now = Now0
    /\ failures = 0
    /\ users = [e \in Emails |-> StartCredits]
    /\ holds = {}
    /\ bookings = {}
    /\ sessions = {}
    /\ nextId = 1
    /\ proc = [p \in Procs |-> Idle]
    /\ resp = NoResp

Selections(bundleId) ==
    { sel \in [1..Len(BUNDLES[bundleId].services) ->
                  [service : ReqServices, startISO : Requests.starts]] :
        Requests.wellFormed =>
            \A k \in DOMAIN sel : sel[k].service = BUNDLES[bundleId].services[k] }

Step(p) ==
    \/ \E s \in Requests.services, t \in Requests.starts, c \in Requests.buyers :
          CheckoutSingle(p, s, t, c)
    \/ HoldSingleBookings(p)
    \/ HoldSingleHolds(p)
    \/ HoldSingleInsert(p)
    \/ \E b \in ReqBundles, c \in Requests.buyers :
          \E sel \in Selections(b) : CheckoutBundle(p, b, sel, c)
    \/ HoldBundleBookings(p)
    \/ HoldBundleHolds(p)
    \/ HoldBundleInsert(p)
    \/ \E sess \in sessions, c \in Requests.buyers : Confirm(p, sess, c)
    \/ ConfirmUser(p)
    \/ ConfirmDecrement(p)
    \/ ConfirmInsert(p)
    \/ ConfirmDelete(p)
    \/ ConfirmBundleInsert(p)
    \/ ConfirmBundleDelete(p)
    \/ \E s \in Requests.services, d \in ReqDates : GetAvailability(p, s, d)
    \/ \E s \in Requests.services, c \in Requests.cookies : Quote(p, s, c)
    \/ \E e \in Emails : Login(p, e)
    \/ \E e \in Emails : GrantHbotPack(p, e)
    \/ AdminHolds(p)

Next == (\E p \in Procs : Step(p)) \/ Deliver \/ Tick \/ Sweep

\* Concurrent request handlers: any handler may take its next step.
Init == serial = FALSE /\ clients = "concurrent" /\ Start /\ probe = NoProbe
Spec == Init /\ [][Next]_vars

\* Requests served one after another, each answered before the next is
\* taken; the clock and the TTL monitor move between requests.
InitSeq == serial = TRUE /\ clients = "sequential" /\ Start /\ probe = NoProbe
SpecSeq == InitSeq /\ [][Next]_vars

\* Requests at the edges, served one after another.
InitEdge == serial = TRUE /\ clients = "edge" /\ Start /\ probe = NoProbe
SpecEdge == InitEdge /\ [][Next]_vars

InitFaulty == serial = TRUE /\ clients = "faulty" /\ Start /\ probe = NoProbe
SpecFaulty == InitFaulty /\ [][Next]_vars

\* The hours check alone, over every service and a grid of start times.
ProbeDates == {0, 1, 2}                \* a Sunday, a Monday, a Tuesday
ProbeStep == 5                         \* minutes between the start times tried
ProbeTimes == {6 * 60 + 30 + k * ProbeStep : k \in 0..((12 * 60) \div ProbeStep)}

InitHours ==
    /\ serial = TRUE
    /\ clients = "sequential"
    /\ Start
    /\ probe \in [fn : {"withinHours"}, service : DOMAIN SERVICES,
                  startISO : [date : ProbeDates, hm : ProbeTimes],
                  done : {FALSE}, result : {FALSE}]

ApplyWithinHours ==
    /\ probe.fn = "withinHours"
    /\ ~probe.done
    /\ probe' = [probe EXCEPT !.done = TRUE,
                              !.result = withinHours(probe.service, probe.startISO)]
    /\ UNCHANGED <<serial, clients, failures, backend, tz, now, users, holds, bookings, sessions, nextId, proc, resp>>

NextHours == ApplyWithinHours

SpecHours == InitHours /\ [][NextHours]_vars

\* The server keeps answering requests, the clock keeps advancing, and the
\* TTL monitor of the Mongo store runs again and again whatever the request
\* handlers do.
SpecLive ==
    InitSeq /\ [][Next]_vars /\ WF_vars(Next) /\ WF_vars(Tick) /\ SF_vars(Sweep)

\* GET /api/availability asked once for every service and every weekday.
SlotDates == 0 .. 6
InitSlots ==
    /\ serial = TRUE
    /\ clients = "sequential"
    /\ Start
    /\ probe \in [fn : {"availability"}, service : DOMAIN SERVICES,
                  date : SlotDates, done : {FALSE}, result : {<<>>}]

ApplyAvailability ==
    /\ probe.fn = "availability"
    /\ ~probe.done
    /\ probe' = [probe EXCEPT !.done = TRUE,
                              !.result = availability(probe.service, probe.date)]
    /\ UNCHANGED <<serial, clients, failures, backend, tz, now, users, holds, bookings, sessions, nextId, proc, resp>>

NextSlots == ApplyAvailability

SpecSlots == InitSlots /\ [][NextSlots]_vars

(***************************************************************************)
(* Properties                                                              *)
(***************************************************************************)
\* The buffered interval [start, end + buffer] of a booking, and of a hold.
bufferedOfBooking(b) ==
    [start |-> parseISO(b.startISO),
     endWB |-> addMinutes(parseISO(b.endISO), BUFFERS[b.service])]
bufferedOfHold(h) ==
    [start |-> parseISO(h.startISO), endWB |-> parseISO(h.endISOWB)]
\* Two intervals share more than an end point / share at least a point.
Intersect(a, b) == a.start < b.endWB /\ b.start < a.endWB
Touch(a, b) == a.start <= b.endWB /\ b.start <= a.endWB

\* C1: in every reachable state, under any interleaving of the hold and
\* confirm handlers, no two bookings of one service have overlapping
\* intervals [start, end + buffer].
C1_NoDoubleBooking ==
    \A b1, b2 \in bookings :
        (b1.id # b2.id /\ b1.service = b2.service)
            => ~Intersect(bufferedOfBooking(b1), bufferedOfBooking(b2))

\* C2: two concurrent single-hold calls for the same service and start create
\* at most one hold: never are two single holds for the same service and start
\* live at once.
C2_AtMostOneHold ==
    \A h1, h2 \in holds :
        ( /\ h1.type = "single" /\ h2.type = "single"
          /\ h1.service = h2.service /\ h1.startISO = h2.startISO
          /\ h1.expireAt > now /\ h2.expireAt > now )
            => h1.id = h2.id

\* C3: a bundle call persists nothing before every selection has passed the
\* hours, cutoff and conflict checks: a step that answers a bundle call with
\* a rejection leaves the holds as they are, and bundle holds enter the store
\* only all together, one per selection under one new group identifier, in
\* the step that answers the call with ok.
C3_BundleAllOrNothing ==
    [][ LET new == {h \in holds' \ holds : h.type = "bundle"} IN
        /\ (resp' # resp /\ resp'.op = "checkout-bundle" /\ ~resp'.ok) => holds' = holds
        /\ new # {} =>
              /\ resp' # resp /\ resp'.op = "checkout-bundle" /\ resp'.ok
              /\ \A h \in new : h.groupId = resp'.id /\ Len(BUNDLES[h.bundleId].services) = Cardinality(new)
              /\ \A h \in holds : h.groupId # resp'.id
      ]_vars

\* C3 witness: a bundle call with the bundle's own services whose first
\* selection has passed every check and whose second selection is found
\* taken, so the call is about to be rejected with nothing stored for it.
C3_Witness ==
    \E p \in Procs :
        /\ proc[p].pc = "hb_holds"
        /\ proc[p].i = 2
        /\ \A k \in DOMAIN proc[p].selections :
              proc[p].selections[k].service = BUNDLES[proc[p].bundleId].services[k]
        /\ LET sel == proc[p].selections[2]
               iv  == intervalWithBuffer(sel.service, parseISO(sel.startISO))
           IN  proc[p].hit \/ hitHold(sel.service, iv.start, iv.endWB, proc[p].qnow)
        /\ \A h \in holds : h.type = "single"

holdExpiredAnswer(r) ==
    r.op = "confirm" /\ ~r.ok /\ r.error \in {"hold expired", "bundle holds expired"}

\* the stored holds a paid session stands for
holdsOfSession(sess) ==
    {h \in holds : IF sess.kind = "single" THEN h.id = sess.holdId
                   ELSE h.groupId = sess.groupId}

\* C4: with confirm calls made one after another, the bookings of a session
\* are created by at most one call, and a confirm call for a session that
\* already has its bookings is answered hold-expired and creates none.
C4_ConfirmAtMostOnce ==
    [][ /\ \A b \in bookings' \ bookings :
              \A b0 \in bookings : b0.paidSessionId # b.paidSessionId
        /\ \A p \in Procs, sess \in sessions, c \in Emails :
              (Confirm(p, sess, c) /\ \E b \in bookings : b.paidSessionId = sess.id)
                  => holdExpiredAnswer(resp') /\ bookings' = bookings
      ]_vars

\* C5: a booking is created only from holds that are live when confirm runs:
\* a confirm call for a session whose holds are stored but all past their
\* expiry is answered hold-expired, and every booking that enters the store
\* has a stored source hold whose expiry is still ahead.
C5_ConfirmOnlyLiveHolds ==
    [][ /\ \A p \in Procs, sess \in sessions, c \in Emails :
              ( /\ Confirm(p, sess, c)
                /\ holdsOfSession(sess) # {}
                /\ \A h \in holdsOfSession(sess) : h.expireAt <= now )
                  => holdExpiredAnswer(resp')
        /\ \A b \in bookings' \ bookings :
              \E sess \in sessions :
                  /\ sess.id = b.paidSessionId
                  /\ \E h \in holdsOfSession(sess) :
                        h.service = b.service /\ h.expireAt > now
      ]_vars

unavailableAnswer(r) ==
    /\ r.op \in {"checkout-single", "checkout-bundle"}
    /\ r.error \in {"slot currently unavailable", "one or more slots unavailable"}

\* the service and start a handler in its conflict check is asking about
candidateOf(l) ==
    IF l.pc \in {"hs_bookings", "hs_holds"}
    THEN [service |-> l.service, startISO |-> l.startISO]
    ELSE l.selections[l.i]

\* C6: a stored hold whose expiry is not after the current time blocks
\* nothing and is listed nowhere: whenever a checkout call is refused as
\* unavailable, a booking of that service or a hold of that service whose
\* expiry is still ahead meets the candidate's buffered interval, and the
\* live-holds listing returns only holds whose expiry is still ahead.
C6_ExpiredHoldsInert ==
    [][ /\ \A p \in Procs :
              ( /\ proc[p].pc \in {"hs_bookings", "hs_holds", "hb_bookings", "hb_holds"}
                /\ proc'[p].pc = "idle"
                /\ unavailableAnswer(resp') )
              => LET c    == candidateOf(proc[p])
                     iv   == intervalWithBuffer(c.service, parseISO(c.startISO))
                     cand == [start |-> iv.start, endWB |-> iv.endWB]
                 IN  \/ \E b \in bookings :
                           b.service = c.service /\ Touch(cand, bufferedOfBooking(b))
                     \/ \E h \in holds :
                           /\ h.service = c.service
                           /\ h.expireAt > now
                           /\ Touch(cand, bufferedOfHold(h))
        /\ (resp' # resp /\ resp'.op = "admin-holds")
              => resp'.list = {h \in holds : h.expireAt > now}
      ]_vars

\* C6 witness: an expired hold still stored, a second hold of the same
\* service and start accepted after the first expired, and a live-holds
\* listing that returns the second and not the first.
C6_Witness ==
    /\ resp.op = "admin-holds"
    /\ \E h1, h2 \in holds :
          /\ h1.service = h2.service /\ h1.startISO = h2.startISO
          /\ h1.expireAt <= h2.createdAt
          /\ h1 \notin resp.list /\ h2 \in resp.list

bufferedOfSlot(service, slot) ==
    [start |-> parseISO(slot.startISO),
     endWB |-> addMinutes(parseISO(slot.endISO), BUFFERS[service])]

\* C7: no slot in an availability answer has a buffered interval
\* [start, end + buffer] that overlaps the buffered interval of a booking of
\* that service or of a hold of that service whose expiry is still ahead.
C7_SlotsClearOfBuffers ==
    resp.op = "availability" =>
        \A k \in DOMAIN resp.slots :
            LET cand == bufferedOfSlot(resp.service, resp.slots[k]) IN
            /\ \A b \in bookings :
                  b.service = resp.service => ~Intersect(cand, bufferedOfBooking(b))
            /\ \A h \in holds :
                  (h.service = resp.service /\ h.expireAt > now)
                      => ~Intersect(cand, bufferedOfHold(h))

\* C8: while an unexpired hold of a service is stored, an availability answer
\* for that service and the date of the hold does not list the hold's start.
C8_HeldStartNotListed ==
    resp.op = "availability" =>
        \A h \in holds :
            ( /\ h.service = resp.service
              /\ h.startISO.date = resp.date
              /\ h.expireAt > now )
            => \A k \in DOMAIN resp.slots : resp.slots[k].startISO # h.startISO

\* C8 witness: an availability answer for the service and date of a stored,
\* unexpired hold, listing other starts of that day.
C8_Witness ==
    /\ resp.op = "availability"
    /\ resp.slots # <<>>
    /\ \E h \in holds :
          /\ h.service = resp.service
          /\ h.startISO.date = resp.date
          /\ h.expireAt > now

\* the case in which confirming a single hold consumes a credit
consumesCredit(l) ==
    /\ l.sess.service = "hbot"
    /\ l.hold.unitAmount = 6000
    /\ l.email \in DOMAIN users
    /\ users[l.email] > 0

\* C9: for a customer with a positive balance and the service hbot, a quote
\* is 60 and a new single hold is charged 6000; a confirm of a single hold
\* takes the credit step exactly when the service is hbot, the hold's charge
\* is 6000 and the balance is positive, that step lowers the balance of that
\* customer by one, and apart from granted packs nothing else changes a
\* balance.
C9_CreditPricing ==
    [][ /\ ( /\ resp' # resp
             /\ resp'.op = "quote"
             /\ resp'.service = "hbot"
             /\ creditsOf(resp'.email) > 0 ) => resp'.price = 60
        /\ \A h \in holds' \ holds :
              (h.type = "single" /\ h.service = "hbot" /\ creditsOf(h.email) > 0)
                  => h.unitAmount = 6000
        /\ \A p \in Procs :
              /\ (proc[p].pc = "idle" /\ proc'[p].pc \in {"cs_user", "cs_insert"})
                    => (consumesCredit(proc'[p]) => proc'[p].pc = "cs_user")
              /\ proc[p].pc = "cs_user"
                    => proc'[p].pc = IF consumesCredit(proc[p]) THEN "cs_dec" ELSE "cs_insert"
              /\ proc[p].pc = "cs_dec"
                    => /\ users' = [users EXCEPT ![proc[p].email] = @ - 1]
                       /\ proc'[p].pc = "cs_insert"
              /\ (proc[p].pc = "cs_insert" /\ proc[p].sess.kind = "single")
                    => \E b \in bookings' \ bookings : b.paidSessionId = proc[p].sess.id
        /\ users' # users =>
              \/ resp'.op = "grant-hbot-pack" /\ resp' # resp
              \/ \E p \in Procs : proc[p].pc = "cs_dec" /\ consumesCredit(proc[p])
      ]_vars

\* C9 witness: a confirm of an hbot hold charged 6000 has answered ok, the
\* booking exists and the customer's balance is one below where it started.
C9_Witness ==
    /\ resp.op = "confirm" /\ resp.ok
    /\ \E b \in bookings :
          /\ b.service = "hbot"
          /\ b.clientEmail \in DOMAIN users
          /\ users[b.clientEmail] = StartCredits - 1

\* C10: the hours check accepts a start exactly when its weekday is open, the
\* start is not before the opening time and the start plus the service
\* duration, without the buffer, is not after the closing time.
C10_HoursCheck ==
    (probe.fn = "withinHours" /\ probe.done) =>
        LET w == WEEKLY_HOURS(probe.startISO.date % 7) IN
        probe.result <=>
            /\ w.open >= 0
            /\ probe.startISO.hm >= w.open
            /\ probe.startISO.hm + SERVICES[probe.service].duration <= w.close

\* The starts open + k * SLOT of a day whose last one ends at or before close.
gridStarts(service, date) ==
    LET w == WEEKLY_HOURS(date % 7)
        n == IF w.open < 0 \/ w.open + SERVICES[service].duration > w.close THEN 0
             ELSE (w.close - w.open - SERVICES[service].duration) \div SLOT + 1
    IN  [k \in 1 .. n |-> [date |-> date, hm |-> w.open + (k - 1) * SLOT]]

startsOf(slots) == [k \in DOMAIN slots |-> slots[k].startISO]

\* C11: with no bookings and no live holds for the service, the availability
\* of a date is exactly the starts open + k * SLOT with start + duration <=
\* close, in increasing order, each slot ending duration minutes after its
\* start, and it is empty on a closed weekday; a Monday sauna runs from 07:00
\* to a last start of 17:45.
C11_AvailabilityGrid ==
    ( /\ probe.fn = "availability" /\ probe.done
      /\ ~\E b \in bookings : b.service = probe.service
      /\ ~\E h \in holds : h.service = probe.service /\ h.expireAt > now ) =>
        /\ startsOf(probe.result) = gridStarts(probe.service, probe.date)
        /\ \A k \in DOMAIN probe.result :
              parseISO(probe.result[k].endISO) =
                 parseISO(probe.result[k].startISO) + SERVICES[probe.service].duration
        /\ WEEKLY_HOURS(probe.date % 7).open < 0 => probe.result = <<>>
        /\ (probe.service = "sauna" /\ probe.date % 7 = 1) =>
              /\ probe.result[1].startISO.hm = 7 * 60
              /\ probe.result[2].startISO.hm = 7 * 60 + 15
              /\ probe.result[Len(probe.result)].startISO.hm = 17 * 60 + 45

C11_Witness ==
    /\ probe.fn = "availability" /\ probe.done
    /\ probe.service = "sauna" /\ probe.date = 1
    /\ Len(probe.result) = 44
    /\ holds = {} /\ bookings = {}

\* What the two read operations answer in the current state.
readOutputs ==
    [ slots |-> [s \in ReqServices |-> [d \in ReqDates |-> availability(s, d)]],
      price |-> [s \in DOMAIN SERVICES |->
                    [c \in Cookies |-> userPriceFor(s, creditsOf(c))]] ]

storeOf == <<bookings, holds, users>>

readAnswered == resp = NoResp /\ resp' # NoResp /\ resp'.op \in {"availability", "quote"}

\* C12 as stated: a read leaves bookings, holds and customers alone, and while
\* nothing is written the reads answer the same.
C12_ReadsRepeatable_AsStated ==
    [][ /\ readAnswered => storeOf' = storeOf
        /\ storeOf' = storeOf => readOutputs' = readOutputs ]_vars

\* C12: getAvailability and quotePrice leave bookings, holds and customers
\* alone, and two calls with the same arguments answer the same when nothing
\* was written and no hold reached its expiry time between them.
C12_ReadsRepeatable ==
    [][ /\ readAnswered => storeOf' = storeOf
        /\ (storeOf' = storeOf /\ liveHolds(now)' = liveHolds(now)) =>
              readOutputs' = readOutputs ]_vars

\* An availability answer that leaves out a slot because of a live hold.
C12_Witness ==
    /\ resp # NoResp /\ resp.op = "availability"
    /\ \E h \in liveHolds(now) : h.service = resp.service
    /\ startsOf(resp.slots) # gridStarts(resp.service, resp.date)

\* The candidate interval of the single call handler p is working on.
callInterval(p) == intervalWithBuffer(proc[p].service, parseISO(proc[p].startISO))
callConflicts(p) == overlaps(proc[p].service, callInterval(p).start, callInterval(p).endWB)
slotUnavailable == Err("checkout-single", "slot currently unavailable")

\* C13: a single hold call checks the hours, then the cutoff, then conflicts,
\* and answers the reason of the first check that fails as an ordinary
\* rejection; a rejected call inserts no hold and leaves bookings, holds and
\* customers as they were; a call that passes all three inserts exactly one
\* hold, for the service and start asked for.
C13_CheckOrder ==
    [][ \A p \in Procs :
          /\ \A s \in Requests.services, t \in Requests.starts, c \in Requests.buyers :
                CheckoutSingle(p, s, t, c) =>
                   /\ storeOf' = storeOf
                   /\ ~withinHours(s, t) =>
                         resp' = Err("checkout-single", "outside business hours")
                   /\ (withinHours(s, t) /\ ~sameDayCutoffOK(t)) =>
                         resp' = Err("checkout-single", "past cutoff for today")
                   /\ (withinHours(s, t) /\ sameDayCutoffOK(t)) <=>
                         (resp' = NoResp /\ proc'[p].pc = "hs_bookings")
          /\ (proc[p].pc = "hs_bookings" /\ proc'[p] # proc[p]) =>
                /\ storeOf' = storeOf
                /\ resp' # NoResp => (resp' = slotUnavailable /\ callConflicts(p))
                /\ resp' = NoResp => proc'[p].pc = "hs_holds"
          /\ (proc[p].pc = "hs_holds" /\ proc'[p] # proc[p]) =>
                /\ storeOf' = storeOf
                /\ callConflicts(p) <=> resp' = slotUnavailable
                /\ ~callConflicts(p) <=> (resp' = NoResp /\ proc'[p].pc = "hs_insert")
          /\ (proc[p].pc = "hs_insert" /\ proc'[p] # proc[p]) =>
                /\ bookings' = bookings /\ users' = users
                /\ holds \subseteq holds'
                /\ Cardinality(holds' \ holds) = 1
                /\ \A h \in holds' \ holds :
                      /\ h.service = proc[p].service
                      /\ h.startISO = proc[p].startISO
                      /\ resp' = Ok("checkout-single", h.id)
      ]_vars

\* A call for 11:15 was refused for the hours while a live hold for 11:00
\* also stands in its way.
C13_Witness ==
    /\ resp = Err("checkout-single", "outside business hours")
    /\ \E h \in liveHolds(now) : h.service = "hbot" /\ h.startISO = Tue1100
    /\ overlaps("hbot", parseISO(Tue1115),
                intervalWithBuffer("hbot", parseISO(Tue1115)).endWB)
    /\ ~withinHours("hbot", Tue1115)

\* Two intervals that meet at an end point.
Meet(a, b) == a.start = b.endWB \/ a.endWB = b.start

\* C14: the conflict check counts intervals that merely touch: no slot is
\* listed, and no single hold call gets past the conflict check, whose
\* buffered interval starts exactly at the buffered end, or ends exactly at
\* the start, of a booking of that service or of a hold of that service whose
\* expiry is still ahead; in both store backends.
C14_InclusiveOverlap ==
    /\ resp.op = "availability" =>
          \A k \in DOMAIN resp.slots :
              LET cand == bufferedOfSlot(resp.service, resp.slots[k]) IN
              /\ \A b \in bookings :
                    b.service = resp.service => ~Meet(cand, bufferedOfBooking(b))
              /\ \A h \in liveHolds(now) :
                    h.service = resp.service => ~Meet(cand, bufferedOfHold(h))
    /\ \A p \in Procs :
          proc[p].pc = "hs_insert" =>
              LET iv   == callInterval(p)
                  cand == [start |-> iv.start, endWB |-> iv.endWB]
              IN  /\ \A b \in bookings :
                        b.service = proc[p].service => ~Meet(cand, bufferedOfBooking(b))
                  /\ \A h \in liveHolds(now) :
                        h.service = proc[p].service => ~Meet(cand, bufferedOfHold(h))

\* C15: when a store operation of confirm fails, the call is answered with
\* the opaque failure and nothing of it remains: the failing step writes
\* nothing, no booking carries the call's session, the hold or holds the call
\* found are still stored, and the customer's balance is the one the call
\* found.  (Calls are served one after another and the store fails once, so
\* what the call found is what was there before it.)
C15_NoPartialConfirm ==
    [][ failures' > failures =>
          /\ resp' = Err("confirm", "confirm failed")
          /\ storeOf' = storeOf
          /\ \A p \in Procs :
                (proc[p].pc # "idle" /\ proc'[p].pc = "idle") =>
                    LET l == proc[p] IN
                    /\ \A b \in bookings' : b.paidSessionId # l.sess.id
                    /\ IF l.sess.kind = "single" THEN l.hold \in holds'
                       ELSE l.batch \subseteq holds'
                    /\ "user" \in DOMAIN l => users'[l.email] = l.user
      ]_vars

\* C16: the holds a successful bundle call persists are exactly one per
\* service of the bundle's list, the i-th for the i-th service, all with one
\* group identifier that no stored hold carried before and with one expiry.
C16_BundleHoldPerService ==
    [][ LET new == {h \in holds' \ holds : h.type = "bundle"} IN
        new # {} =>
            \E g \in 1 .. MaxIds + 1, b \in DOMAIN BUNDLES :
                LET svc == BUNDLES[b].services IN
                /\ \A h \in new : h.groupId = g /\ h.bundleId = b
                /\ \A h \in holds : h.groupId # g
                /\ Cardinality(new) = Len(svc)
                /\ \A i \in DOMAIN svc :
                      \E h \in new : h.id = memberId(g, i) /\ h.service = svc[i]
                /\ \A h1, h2 \in new : h1.expireAt = h2.expireAt
      ]_vars

HoldIds ==
    (1 .. MaxIds) \cup {memberId(g, k) : g \in 1 .. MaxIds, k \in 1 .. 5}

\* C17: a stored hold whose expiry time has passed is eventually no longer
\* in the store, whether a confirm, a query or a background sweep removes
\* it; in both store backends.
C17_ExpiredHoldsPurged ==
    \A id \in HoldIds :
        (\E h \in holds : h.id = id /\ h.expireAt <= now)
            ~> (\A h \in holds : h.id # id)

\* The records of one service that the conflict check can count.
recordsOf(s) ==
    <<{b \in bookings : b.service = s}, {h \in liveHolds(now) : h.service = s}>>

\* What a single hold call and an availability call for a service answer in
\* the current state.
resultsFor(s) ==
    [ hold  |-> [t \in ReqStarts \cup {Tue1115} |->
                   LET iv == intervalWithBuffer(s, parseISO(t)) IN
                   <<withinHours(s, t), sameDayCutoffOK(t), overlaps(s, iv.start, iv.endWB)>>],
      slots |-> [d \in ReqDates |-> availability(s, d)] ]

C19_ConcurrentConfirmOnce ==
    \A b1, b2 \in bookings :
        ( /\ b1.paidSessionId = b2.paidSessionId
          /\ b1.service = b2.service
          /\ b1.startISO = b2.startISO )
            => b1.id = b2.id

\* C20: a confirm of a single hold that succeeds has inserted exactly one
\* booking, with the service, start and end of the hold, with the identity
\* stored in the hold or, when the hold has none, the caller's, and with the
\* paid session's id as payment reference; when it answers, the hold is no
\* longer stored.
C20_ConfirmSingleBooking ==
    [][ \A p \in Procs :
          /\ \A sess \in sessions, c \in Requests.buyers :
                (Confirm(p, sess, c) /\ sess.kind = "single" /\ proc'[p].pc # "idle") =>
                    \E h \in holds :
                        /\ h.id = sess.holdId
                        /\ proc'[p].hold = h
                        /\ proc'[p].email = IF h.email # NoUser THEN h.email ELSE c
          /\ (proc[p].pc = "cs_insert" /\ proc'[p].pc = "cs_delete") =>
                LET l == proc[p] IN
                \E b \in bookings' \ bookings :
                    /\ bookings' = bookings \cup {b}
                    /\ b.service = l.hold.service
                    /\ b.startISO = l.hold.startISO
                    /\ b.endISO = l.hold.endISO
                    /\ b.clientEmail = l.email
                    /\ b.paidSessionId = l.sess.id
          /\ ( /\ proc[p].pc # "idle" /\ proc'[p].pc = "idle"
               /\ resp'.op = "confirm" /\ resp'.ok /\ proc[p].sess.kind = "single" ) =>
                /\ proc[p].pc = "cs_delete"
                /\ bookings' = bookings
                /\ Cardinality({b \in bookings' : b.paidSessionId = proc[p].sess.id}) = 1
                /\ \A h \in holds' : h.id # proc[p].sess.holdId
      ]_vars

\* The booking of a hold placed without a login has been inserted for the
\* customer who confirms it.
C20_Witness ==
    \E p \in Procs :
        /\ proc[p].pc = "cs_delete"
        /\ proc[p].hold.email = NoUser
        /\ proc[p].email = "ann"
        /\ \E b \in bookings :
              b.paidSessionId = proc[p].sess.id /\ b.clientEmail = "ann"

\* C21: a bundle confirm that finds k >= 1 holds of the group stored inserts
\* exactly k bookings, one per hold found with its service, start and end,
\* all with the group identifier, and then deletes every hold of the group
\* and no other; one that finds none answers hold-expired and inserts
\* nothing; members that are gone do not keep the others from being booked.
C21_ConfirmBundleBooksStored ==
    [][ \A p \in Procs :
          /\ \A sess \in sessions, c \in Requests.buyers :
                (Confirm(p, sess, c) /\ sess.kind = "bundle") =>
                    IF holdsOfSession(sess) = {}
                    THEN /\ resp' = Err("confirm", "bundle holds expired")
                         /\ storeOf' = storeOf
                    ELSE /\ proc'[p].pc = "cb_insert"
                         /\ proc'[p].batch = holdsOfSession(sess)
          /\ (proc[p].pc = "cb_insert" /\ proc'[p].pc = "cb_delete") =>
                LET l   == proc[p]
                    new == bookings' \ bookings
                IN  /\ bookings \subseteq bookings'
                    /\ Cardinality(new) = Cardinality(l.batch)
                    /\ \A b \in new : b.groupId = l.sess.groupId
                    /\ \A h \in l.batch :
                          \E b \in new :
                              /\ b.service = h.service
                              /\ b.startISO = h.startISO
                              /\ b.endISO = h.endISO
          /\ (proc[p].pc = "cb_delete" /\ proc'[p].pc = "idle") =>
                /\ resp' = Ok("confirm", proc[p].sess.groupId)
                /\ holds' = {h \in holds : h.groupId # proc[p].sess.groupId}
                /\ bookings' = bookings
      ]_vars

\* One member hold of a two-service bundle was swept after its expiry and
\* the confirm has booked the one that was left.
C21_Witness ==
    \E p \in Procs :
        /\ proc[p].pc = "cb_delete"
        /\ Cardinality(proc[p].batch) = 1
        /\ Len(BUNDLES[proc[p].sess.bundleId].services) = 2
        /\ Cardinality({b \in bookings : b.groupId = proc[p].sess.groupId}) = 1

\* A start that falls inside the interval of a booking or its buffer.
inBufferedBooking(service, t) ==
    \E b \in bookings :
        /\ b.service = service
        /\ bufferedOfBooking(b).start <= t
        /\ t <= bufferedOfBooking(b).endWB

\* C22: while a booking of a service is stored, no start from the start of
\* the booking to the end of its buffer is listed for that service, and no
\* single hold call for such a start gets past the conflict check; in both
\* store backends.
C22_BufferUnreservable ==
    /\ resp.op = "availability" =>
          \A k \in DOMAIN resp.slots :
              ~inBufferedBooking(resp.service, parseISO(resp.slots[k].startISO))
    /\ \A p \in Procs :
          proc[p].pc = "hs_insert" =>
              ~inBufferedBooking(proc[p].service, parseISO(proc[p].startISO))

\* C23: every hold that enters the store expires HOLD_TTL_MIN after the
\* creation time it records, and every query treats a hold as live exactly
\* when the current time is before its expiry: the live-holds listing
\* returns the holds whose expiry is ahead and no other, and a confirm goes
\* on only with holds whose expiry is ahead.
C23_ExpiryIsCreationPlusTTL ==
    [][ /\ \A h \in holds' \ holds : h.expireAt = h.createdAt + HOLD_TTL_MIN
        /\ (resp' # resp /\ resp'.op = "admin-holds") =>
              resp'.list = {h \in holds' : now' < h.expireAt}
        /\ \A p \in Procs, sess \in sessions, c \in Requests.buyers :
              (Confirm(p, sess, c) /\ proc'[p].pc # "idle") =>
                 \A h \in holdsOfSession(sess) : now < h.expireAt
      ]_vars

\* C24: whether a confirm consumes a credit is decided from the charge the
\* hold has carried since its creation: a stored hold never changes its
\* charge, a confirm of a hold charged anything but the credit charge goes
\* from the user lookup straight to the insert whatever the balance is by
\* then, and a balance is lowered only by the confirm of a hold that carries
\* the credit charge.
C24_CreditDecidedAtCreation ==
    [][ /\ \A g \in holds, h \in holds' : h.id = g.id => h.unitAmount = g.unitAmount
        /\ \A p \in Procs :
              ( /\ proc[p].pc = "cs_user" /\ proc'[p] # proc[p]
                /\ proc[p].hold.unitAmount # HBOT_CREDIT_CHARGE )
                  => proc'[p].pc = "cs_insert" /\ users' = users
        /\ \A e \in Emails :
              users'[e] < users[e] =>
                 \E p \in Procs, h \in holds :
                     /\ proc[p].pc = "cs_dec" /\ proc[p].email = e
                     /\ h.id = proc[p].sess.holdId
                     /\ h.unitAmount = HBOT_CREDIT_CHARGE
      ]_vars

\* A hold placed at the base price by a customer without credits is being
\* confirmed after a pack was granted, and the insert has been reached with
\* the balance untouched.
C24_Witness ==
    \E p \in Procs :
        /\ proc[p].pc = "cs_insert"
        /\ proc[p].sess.service = "hbot"
        /\ proc[p].hold.email = "ann"
        /\ proc[p].hold.unitAmount = SERVICES["hbot"].price * 100
        /\ "user" \in DOMAIN proc[p]
        /\ proc[p].user = HBOT_PACK
        /\ users["ann"] = HBOT_PACK

\* C25: holds are inserted only by the step of a hold creation that answers
\* with the checkout session, and removed only by the delete step of a confirm
\* or, once expired, by the TTL monitor; login, credit grant, quote,
\* availability and every rejected checkout leave the set of holds as it was.
C25_HoldsFrame ==
    [][ /\ (holds' \ holds # {}) =>
              /\ holds \subseteq holds'
              /\ \E p \in Procs :
                    /\ proc[p].pc \in {"hs_insert", "hb_insert"}
                    /\ proc'[p].pc = "idle"
                    /\ resp'.ok
                    /\ resp'.op \in {"checkout-single", "checkout-bundle"}
        /\ (holds \ holds' # {}) =>
              /\ holds' \subseteq holds
              /\ \/ \E p \in Procs :
                       /\ proc[p].pc = "cs_delete"
                       /\ proc'[p].pc = "idle"
                       /\ holds' = {h \in holds : h.id # proc[p].sess.holdId}
                 \/ \E p \in Procs :
                       /\ proc[p].pc = "cb_delete"
                       /\ proc'[p].pc = "idle"
                       /\ holds' = {h \in holds : h.groupId # proc[p].sess.groupId}
                 \/ /\ proc' = proc
                    /\ resp' = resp
                    /\ \A h \in holds \ holds' : h.expireAt <= now
        /\ ( /\ resp' # resp
             /\ resp'.op \in {"login", "grant-hbot-pack", "quote", "availability"} )
               => holds' = holds
        /\ ( /\ resp' # resp
             /\ resp'.op \in {"checkout-single", "checkout-bundle"}
             /\ ~resp'.ok ) => holds' = holds
      ]_vars

\* A checkout was rejected for a slot that is taken, and the hold that takes
\* it is stored as before.
C25_Witness ==
    /\ resp = slotUnavailable
    /\ Cardinality(holds) = 1
    /\ bookings = {}

\* C26: with requests served one at a time and the clock free to advance
\* between them, whenever no request is in progress no two stored holds of
\* one service whose expiry is ahead have overlapping intervals
\* [start, end + buffer], and no such hold overlaps the interval
\* [start, end + buffer] of a booking of its service.
C26_LiveHoldsExclusive ==
    (\A p \in Procs : proc[p].pc = "idle") =>
        \A h \in liveHolds(now) :
            /\ \A g \in liveHolds(now) :
                  (g.id # h.id /\ g.service = h.service)
                      => ~Intersect(bufferedOfHold(h), bufferedOfHold(g))
            /\ \A b \in bookings :
                  b.service = h.service
                      => ~Intersect(bufferedOfHold(h), bufferedOfBooking(b))

\* C27: the credit balance of a customer is never negative, whatever the
\* interleaving of the balance reads and decrements of the confirm calls
\* that run at the same time for that customer.
C27_BalanceNeverNegative ==
    \A e \in DOMAIN users : users[e] >= 0

\* The conflict check asked for the interval of a stored or fetched hold.
conflictFor(h) == overlaps(h.service, parseISO(h.startISO), parseISO(h.endISOWB))

\* C28: while a confirm is between two of its store steps, the conflict
\* check still reports a conflict for the service and interval of each hold
\* it fetched whose expiry is ahead: first because the hold is stored, then
\* because its booking is, the booking being inserted before the hold is
\* deleted.
C28_SlotNeverFreeDuringConfirm ==
    \A p \in Procs :
        /\ proc[p].pc \in {"cs_user", "cs_dec", "cs_insert", "cs_delete"} =>
              (proc[p].hold.expireAt > now => conflictFor(proc[p].hold))
        /\ proc[p].pc \in {"cb_insert", "cb_delete"} =>
              \A h \in proc[p].batch : h.expireAt > now => conflictFor(h)

\* The booking of a live hold is inserted and the hold is still stored; no
\* other hold or booking covers the slot.
C28_Witness ==
    \E p \in Procs :
        /\ proc[p].pc = "cs_delete"
        /\ proc[p].hold.expireAt > now
        /\ proc[p].hold \in holds
        /\ Cardinality(bookings) = 1
        /\ Cardinality(holds) = 1

singleConfirmSteps == {"cs_user", "cs_dec", "cs_insert", "cs_delete"}

\* C29: a confirm of a single hold that is stored with its expiry ahead and
\* whose session has no booking yet is not answered "hold expired": it goes
\* on to its store steps, each of which, unless the store fails, leads to the
\* next; the last one answers ok with the booking of the session stored and
\* the hold gone; and a confirm that has begun its store steps reaches its
\* answer.
C29_LiveHoldConfirmed ==
    /\ [][ \A p \in Procs :
             /\ \A sess \in sessions, c \in Requests.buyers :
                   ( /\ Confirm(p, sess, c)
                     /\ failures' = failures
                     /\ sess.kind = "single"
                     /\ \E h \in holds : h.id = sess.holdId /\ h.expireAt > now
                     /\ \A b \in bookings : b.paidSessionId # sess.id )
                       => /\ proc'[p].pc \in {"cs_user", "cs_insert"}
                          /\ proc'[p].hold.id = sess.holdId
                          /\ resp' = resp
             /\ ( /\ proc[p].pc \in singleConfirmSteps
                  /\ proc'[p] # proc[p]
                  /\ failures' = failures )
                    => \/ /\ proc'[p].pc \in singleConfirmSteps
                          /\ resp' = resp
                       \/ /\ proc[p].pc = "cs_delete"
                          /\ proc'[p].pc = "idle"
                          /\ resp' = Ok("confirm", proc[p].sess.holdId)
                          /\ \E b \in bookings' :
                                /\ b.paidSessionId = proc[p].sess.id
                                /\ b.service = proc[p].hold.service
                                /\ b.startISO = proc[p].hold.startISO
                          /\ \A h \in holds' : h.id # proc[p].sess.holdId
         ]_vars
    /\ \A p \in Procs :
          (proc[p].pc \in singleConfirmSteps) ~> (proc[p].pc = "idle")

\* The confirm of a live hold has answered ok: its booking is stored, the
\* hold is gone and its expiry is still ahead.
C29_Witness ==
    /\ resp.op = "confirm" /\ resp.ok
    /\ \E b \in bookings, s \in sessions :
          /\ s.kind = "single"
          /\ b.paidSessionId = s.id
          /\ resp.id = s.holdId
          /\ \A h \in holds : h.id # s.holdId
    /\ Cardinality(bookings) = 1
    /\ now = Now0

\* What placeHoldSingle decides for a service and start in the current state
\* and at the current time: the hours check, the cutoff check and the
\* conflict check all pass.
holdAccepted(service, startISO) ==
    LET iv == intervalWithBuffer(service, parseISO(startISO))
    IN  /\ withinHours(service, startISO)
        /\ sameDayCutoffOK(startISO)
        /\ ~overlaps(service, iv.start, iv.endWB)

\* C30: every slot of an availability answer is one that a single hold call
\* for that service and start, made in the same state of the store and at the
\* same time, accepts.
C30_ListedSlotsAccepted ==
    resp.op = "availability" =>
        \A k \in DOMAIN resp.slots :
            holdAccepted(resp.service, resp.slots[k].startISO)

====
